---- MODULE Spec2Model ----
(***************************************************************************)
(* A model of the tf-idf command line tool: the tokenizer and the         *)
(* term-frequency indexer (src/src/lexer/lexing.rs), the snapshot writer   *)
(* (src/src/lexer/lib.rs) and the run / tokenize_data / search_query       *)
(* functions of src/src/main.rs.                                           *)
(*                                                                         *)
(* Strings and paths are sequences of one-character strings.  An f32 score *)
(* is either 0 (0.0) or an integer count of units of 2^-23, the spacing of *)
(* the f32 values in [1.0, 2.0); every score index_data produces lies in   *)
(* that interval, so the representation is exact.                          *)
(***************************************************************************)
EXTENDS Integers, Sequences, FiniteSets, TLC

VARIABLES
    phase,      \* "in": inputs drawn, "out": the function under test has been applied
    input,      \* split_into_words: the input string
    words,      \* split_into_words: the returned Vec<String>
    content,    \* index_data: the token sequence
    tf,         \* index_data: the returned TermFreq
    docs,       \* search_query: the Vec<Document> argument
    query,      \* search_query: the query argument
    ranked,     \* search_query: the printed lines, as <<[path, tf]>> in print order
    clock,      \* SystemTime::now(), in whole seconds
    ticks,      \* number of clock changes so far
    fs,         \* the file system: regular-file path -> content
    present,    \* the documents of the directory with the requested extension
    outcome,    \* how the last run of the program ended
    built,      \* the documents tokenize_data built in the last run
    reads,      \* the paths read_from_pdf was called on in the last run
    printed,    \* the result lines the last run printed
    lastDir,    \* the directory argument of the last run
    lastPaths,  \* the candidate paths of the last run
    lastQuery,  \* the query of the last run
    prevFs      \* the file system as the last run found it

vars == <<phase, input, words, content, tf, docs, query, ranked, clock, ticks,
          fs, present, outcome, built, reads, printed, lastDir, lastPaths, lastQuery,
          prevFs>>

pureVars == <<input, words, content, tf, docs, query, ranked>>
runVars == <<clock, ticks, fs, present, outcome, built, reads, printed, lastDir,
             lastPaths, lastQuery, prevFs>>

(***************************************************************************)
(* Bounds of the model.                                                    *)
(***************************************************************************)
MaxLen == 3        \* longest input string of the tokenizer harness
MaxTokens == 6     \* longest token sequence of the indexer harness
MaxDocs == 3       \* longest document sequence of the search harness
MaxTicks == 3      \* clock changes in one behaviour of the program

(***************************************************************************)
(* f32 arithmetic on the values the program computes.                      *)
(***************************************************************************)
Ulps == 2 ^ 23      \* 1.0 in units of 2^-23

RECURSIVE Log2Floor(_)
Log2Floor(n) == IF n < 2 THEN 0 ELSE 1 + Log2Floor(n \div 2)

\* num / den rounded to the nearest integer, ties to even (the IEEE default).
RoundHalfEven(num, den) ==
    LET q == num \div den
        r == num % den
    IN  IF 2 * r < den THEN q
        ELSE IF 2 * r > den THEN q + 1
        ELSE IF q % 2 = 0 THEN q ELSE q + 1

\* `1.0 / full_length` for full_length = n >= 1: m * 2^-x with a 24-bit m.
F32Recip(n) ==
    LET x == Log2Floor(n) + 24
    IN  [m |-> RoundHalfEven(2 ^ x, n), x |-> x]

\* `acc += r` for acc in [1.0, 2.0) in units of 2^-23 and 0 < r <= 1.0.
F32AddAssign(acc, r) ==
    LET scale == 2 ^ (r.x - 23)
        exact == acc * scale + r.m          \* the exact sum, in units of 2^-r.x
    IN  IF exact < 2 * Ulps * scale
        THEN RoundHalfEven(exact, scale)
        ELSE 2 * RoundHalfEven(exact, 2 * scale)

(***************************************************************************)
(* lexing.rs: split_into_words.                                            *)
(***************************************************************************)
\* The backtick cannot be written inside a TLA+ string; BACKTICK stands for it.
BACKTICK == "<backtick>"

delimiters == <<"'", ".", ")", "(", BACKTICK, ",", "\"", " ", "\n">>

IsDelimiter(c) == \E i \in 1..Len(delimiters) : delimiters[i] = c

\* char::to_lowercase on the letters of the alphabet of the model.
LowerChar(c) ==
    CASE c = "A" -> "a"
      [] c = "B" -> "b"
      [] c = "H" -> "h"
      [] c = "W" -> "w"
      [] OTHER -> c

to_lowercase(s) == [i \in 1..Len(s) |-> LowerChar(s[i])]

\* str::split(pred): the fragments between delimiter characters, the empty
\* ones included; `cur` is the fragment being read.
RECURSIVE SplitFrom(_, _, _)
SplitFrom(s, i, cur) ==
    IF i > Len(s) THEN <<cur>>
    ELSE IF IsDelimiter(s[i]) THEN <<cur>> \o SplitFrom(s, i + 1, <<>>)
    ELSE SplitFrom(s, i + 1, Append(cur, s[i]))

NonEmpty(word) == word # <<>>

\* split_into_words without its filter on empty fragments.
split_keeping_empty(s) == SplitFrom(to_lowercase(s), 1, <<>>)

split_into_words(s) == SelectSeq(SplitFrom(to_lowercase(s), 1, <<>>), NonEmpty)

(***************************************************************************)
(* lexing.rs: index_data.                                                  *)
(***************************************************************************)
\* The loop of index_data from token i on; data is the map built so far.
RECURSIVE IndexFrom(_, _, _)
IndexFrom(toks, i, data) ==
    IF i > Len(toks) THEN data
    ELSE LET term == toks[i]
         IN  IF term \in DOMAIN data
             THEN IndexFrom(toks, i + 1,
                     [data EXCEPT ![term] = F32AddAssign(@, F32Recip(Len(toks)))])
             ELSE IndexFrom(toks, i + 1,
                     [t \in DOMAIN data \cup {term} |->
                         IF t = term THEN Ulps ELSE data[t]])

EmptyMap == [t \in {} |-> 0]

\* index_data counting a repeat as 1.0 instead of 1.0 / full_length.
RECURSIVE CountFrom(_, _, _)
CountFrom(toks, i, data) ==
    IF i > Len(toks) THEN data
    ELSE LET term == toks[i]
         IN  IF term \in DOMAIN data
             THEN CountFrom(toks, i + 1, [data EXCEPT ![term] = @ + Ulps])
             ELSE CountFrom(toks, i + 1,
                     [t \in DOMAIN data \cup {term} |->
                         IF t = term THEN Ulps ELSE data[t]])

index_data_plain_count(toks) == CountFrom(toks, 1, EmptyMap)

index_data(toks) == IndexFrom(toks, 1, EmptyMap)

(***************************************************************************)
(* main.rs: tokenize_data and search_query.                                *)
(***************************************************************************)
\* A path is the sequence of its characters, the file name being one symbol;
\* Path::file_name is its last element.
FileNames == {"one.pdf", "two.pdf", "three.pdf"}

\* lib.rs read_from_pdf: the text poppler extracts from the document.
read_from_pdf(path) ==
    LET name == path[Len(path)]
    IN  CASE name = "one.pdf" -> <<"A", " ", "b", ",", " ", "a">>
          [] name = "two.pdf" -> <<"b", " ", "b">>
          [] OTHER -> <<"a", "\n", "a">>

\* DocFreq::single(path, term_freq)
single(path, term_freq) == path :> term_freq

\* The Document tokenize_data builds from the text of `path` at time `now`.
NewDocument(path, text, now) ==
    [data |-> single(path, index_data(split_into_words(text))),
     path |-> path,
     last_modified |-> now]

tokenize_data(paths, now) ==
    [i \in 1..Len(paths) |-> NewDocument(paths[i], read_from_pdf(paths[i]), now)]

\* The lookup of search_query with 1.0 for a term that is absent.
TfDefaultOne(doc, q) ==
    IF doc.path \in DOMAIN doc.data /\ q \in DOMAIN doc.data[doc.path]
    THEN doc.data[doc.path][q]
    ELSE Ulps

\* doc.data.get(&doc.path).and_then(|tf| tf.get(&query)).cloned().unwrap_or(0.0)
TfOf(doc, q) ==
    IF doc.path \in DOMAIN doc.data /\ q \in DOMAIN doc.data[doc.path]
    THEN doc.data[doc.path][q]
    ELSE 0

\* Vec::contains with Idf's PartialEq, which compares the paths only.
Contains(buff, idf) == \E j \in 1..Len(buff) : buff[j].path = idf.path

\* The first loop of search_query from document i on.
RECURSIVE CollectFrom(_, _, _, _)
CollectFrom(ds, q, i, idf_buff) ==
    IF i > Len(ds) THEN idf_buff
    ELSE LET idf == [path |-> ds[i].path, tf |-> TfOf(ds[i], q)]
         IN  CollectFrom(ds, q, i + 1,
                 IF Contains(idf_buff, idf) THEN idf_buff ELSE Append(idf_buff, idf))

\* sort_by(|a, b| b.tf.partial_cmp(&a.tf)): a stable sort, so an element is
\* placed before the first element whose tf is strictly smaller.
RECURSIVE InsertSorted(_, _)
InsertSorted(sorted, x) ==
    IF sorted = <<>> THEN <<x>>
    ELSE IF Head(sorted).tf < x.tf THEN <<x>> \o sorted
    ELSE <<Head(sorted)>> \o InsertSorted(Tail(sorted), x)

\* The sort with the comparison the other way round: a.tf.partial_cmp(&b.tf).
RECURSIVE InsertAscending(_, _)
InsertAscending(sorted, x) ==
    IF sorted = <<>> THEN <<x>>
    ELSE IF Head(sorted).tf > x.tf THEN <<x>> \o sorted
    ELSE <<Head(sorted)>> \o InsertAscending(Tail(sorted), x)

RECURSIVE SortAscending(_, _)
SortAscending(buff, i) ==
    IF i = 0 THEN <<>> ELSE InsertAscending(SortAscending(buff, i - 1), buff[i])

RECURSIVE SortFrom(_, _)
SortFrom(buff, i) ==
    IF i = 0 THEN <<>> ELSE InsertSorted(SortFrom(buff, i - 1), buff[i])

sort_by_ascending(buff) == SortAscending(buff, Len(buff))

sort_by(buff) == SortFrom(buff, Len(buff))

\* The lines search_query prints: line i is "i: path, tf".
search_query(ds, q) == sort_by(CollectFrom(ds, q, 1, <<>>))

(***************************************************************************)
(* The file system, the snapshot file and main.rs: main and run.           *)
(***************************************************************************)
WEEK_IN_SECONDS == 604800

DATA_JSON == ".data.json"

\* The spellings of the directory argument: "d" and "d/" name one directory.
Directories == { <<"d">>, <<"d", "/">> }

\* Path::new(dir).join(name): name becomes a new path component.
PathJoin(dir, name) ==
    IF dir = <<>> THEN <<name>>
    ELSE IF dir[Len(dir)] = "/" THEN Append(dir, name)
    ELSE dir \o <<"/", name>>

\* directory.push_str(name): the characters of name follow those of directory.
PushStr(dir, name) == Append(dir, name)

\* The regular files a run can touch: "d/.data.json" and "d.data.json".
SnapshotPaths == {PathJoin(d, DATA_JSON) : d \in Directories}
                    \cup {PushStr(d, DATA_JSON) : d \in Directories}

NoFile == [kind |-> "none", docs |-> <<>>]
Garbage == [kind |-> "garbage", docs |-> <<>>]

IsDirectory(path) == path \in Directories

\* Path::exists
Exists(fsys, path) ==
    \/ IsDirectory(path)
    \/ path \in DOMAIN fsys /\ fsys[path].kind # "none"

\* fs::write(path, contents): creates or replaces a regular file, and fails
\* (EISDIR) on the path of a directory.
FsWrite(fsys, path, contents) ==
    IF IsDirectory(path) \/ path \notin DOMAIN fsys
    THEN [ok |-> FALSE, fs |-> fsys]
    ELSE [ok |-> TRUE, fs |-> [fsys EXCEPT ![path] = contents]]

\* serde_json::to_string_pretty(&data)
to_string_pretty(data) == [kind |-> "json", docs |-> data]

\* serde_json::from_str::<Vec<Document>>(&filedata)
from_str(filedata) ==
    IF filedata.kind = "json"
    THEN [ok |-> TRUE, docs |-> filedata.docs]
    ELSE [ok |-> FALSE, docs |-> <<>>]

\* lib.rs serialize_and_save(data, path)
serialize_and_save(fsys, data, path) == FsWrite(fsys, path, to_string_pretty(data))

\* SystemTime::elapsed: an error when the time is later than the clock.
Elapsed(last_modified, now) ==
    IF last_modified <= now
    THEN [ok |-> TRUE, secs |-> now - last_modified]
    ELSE [ok |-> FALSE, secs |-> 0]

\* What a run leaves behind: how it ended, the file system, the documents it
\* built, the documents it read and the lines it printed.
Ended(how, fsys, documents, readPaths, lines) ==
    [outcome |-> how, fs |-> fsys, built |-> documents, reads |-> readPaths,
     printed |-> lines]

\* run, lines 52-58: the snapshot is older than a week.
StaleBranch(fsys, dir, paths, q, now) ==
    LET saved_data == tokenize_data(paths, now)
        saved == serialize_and_save(fsys, saved_data, dir)
    IN  IF ~saved.ok
        THEN Ended("panic_write", fsys, saved_data, paths, <<>>)
        ELSE Ended("stale", saved.fs, saved_data, paths, search_query(saved_data, q))

\* The fresh branch re-reading the candidate paths instead of using the snapshot.
FreshBranchRebuilds(fsys, data, paths, q, now) ==
    Ended("fresh", fsys, tokenize_data(paths, now), paths,
          search_query(tokenize_data(paths, now), q))

\* run, lines 60-63: the snapshot is at most a week old.
FreshBranch(fsys, data, paths, q, now) ==
    Ended("fresh", fsys, <<>>, <<>>, search_query(data, q))

\* run, lines 66-72: there is no snapshot.
AbsentBranch(fsys, dir, paths, q, now) ==
    LET directory == PushStr(dir, DATA_JSON)
        data == tokenize_data(paths, now)
        saved == serialize_and_save(fsys, data, directory)
    IN  IF ~saved.ok
        THEN Ended("panic_write", fsys, data, paths, <<>>)
        ELSE Ended("absent", saved.fs, data, paths, search_query(data, q))

\* A run that falls back to a rebuild when the snapshot does not deserialize.
DeserializeErrorRebuilds(fsys, dir, paths, q, now) ==
    LET data == tokenize_data(paths, now)
        saved == serialize_and_save(fsys, data, PathJoin(dir, DATA_JSON))
    IN  Ended("absent", saved.fs, data, paths, search_query(data, q))

\* run, line 48 and main, line 88: from_str fails, run returns the error and
\* the expect of main ends the process.
DeserializeError(fsys, dir, paths, q, now) ==
    Ended("deserialize_error", fsys, <<>>, <<>>, <<>>)

\* run(directory, all_pdf_paths, query) on file system fsys at time now.
run(fsys, dir, paths, q, now) ==
    LET json_name == PathJoin(dir, DATA_JSON)
    IN  IF Exists(fsys, json_name)
        THEN LET parsed == from_str(fsys[json_name])
             IN  IF ~parsed.ok
                 THEN DeserializeError(fsys, dir, paths, q, now)
                 ELSE IF parsed.docs = <<>>
                 THEN Ended("panic_no_first_entry", fsys, <<>>, <<>>, <<>>)
                 ELSE LET date == Elapsed(parsed.docs[1].last_modified, now)
                      IN  IF ~date.ok
                          THEN Ended("panic_elapsed", fsys, <<>>, <<>>, <<>>)
                          ELSE IF date.secs > WEEK_IN_SECONDS
                          THEN StaleBranch(fsys, dir, paths, q, now)
                          ELSE FreshBranch(fsys, parsed.docs, paths, q, now)
        ELSE AbsentBranch(fsys, dir, paths, q, now)

\* The orders in which read_dir may list the files of set S.
Listings(S) ==
    {l \in [1..Cardinality(S) -> S] : \A i, j \in 1..Cardinality(S) : l[i] = l[j] => i = j}

\* lib.rs search_filetype(directory, filetype)
search_filetype(dir, names) == {[i \in 1..Len(l) |-> PathJoin(dir, l[i])] : l \in Listings(names)}

DocumentNames == {"one.pdf", "two.pdf"}

RunQueries == { <<"a">>, <<"b">> }

ClockSteps == {-1, 1, WEEK_IN_SECONDS}

NoPure ==
    /\ phase = "run" /\ input = <<>> /\ words = <<>> /\ content = <<>>
    /\ tf = EmptyMap /\ docs = <<>> /\ query = <<>> /\ ranked = <<>>

Forgotten ==
    /\ outcome' = "none" /\ built' = <<>> /\ reads' = <<>> /\ printed' = <<>>
    /\ lastDir' = <<>> /\ lastPaths' = <<>> /\ lastQuery' = <<>> /\ prevFs' = fs

Init ==
    /\ NoPure
    /\ clock = 0 /\ ticks = 0
    /\ fs = [p \in SnapshotPaths |-> NoFile]
    /\ present \in SUBSET DocumentNames
    /\ outcome = "none" /\ built = <<>> /\ reads = <<>> /\ printed = <<>>
    /\ lastDir = <<>> /\ lastPaths = <<>> /\ lastQuery = <<>>
    /\ prevFs = [p \in SnapshotPaths |-> NoFile]

\* main: one invocation of the program, from the arguments to the exit.
Main(dir, q) ==
    \E all_pdfs_paths \in search_filetype(dir, present) :
        LET end == run(fs, dir, all_pdfs_paths, q, clock)
        IN  /\ outcome' = end.outcome
            /\ fs' = end.fs
            /\ built' = end.built
            /\ reads' = end.reads
            /\ printed' = end.printed
            /\ lastDir' = dir
            /\ lastPaths' = all_pdfs_paths
            /\ lastQuery' = q
            /\ prevFs' = fs
            /\ UNCHANGED <<clock, ticks, present, phase>>
            /\ UNCHANGED pureVars

\* The system clock moves, forwards or (when it is set) backwards.
Tick(d) ==
    /\ ticks < MaxTicks
    /\ clock + d >= 0
    /\ clock' = clock + d
    /\ ticks' = ticks + 1
    /\ Forgotten
    /\ UNCHANGED <<fs, present, phase>>
    /\ UNCHANGED pureVars

\* A document appears in the directory.
AddFile(n) ==
    /\ n \notin present
    /\ present' = present \cup {n}
    /\ Forgotten
    /\ UNCHANGED <<clock, ticks, fs, phase>>
    /\ UNCHANGED pureVars

\* A document is removed from the directory.
RemoveFile(n) ==
    /\ n \in present
    /\ present' = present \ {n}
    /\ Forgotten
    /\ UNCHANGED <<clock, ticks, fs, phase>>
    /\ UNCHANGED pureVars

\* The snapshot file of the directory is damaged (truncated or edited) outside
\* the program.
DamageSnapshot ==
    /\ fs[PathJoin(<<"d">>, DATA_JSON)].kind = "json"
    /\ fs' = [fs EXCEPT ![PathJoin(<<"d">>, DATA_JSON)] = Garbage]
    /\ Forgotten
    /\ UNCHANGED <<clock, ticks, present, phase>>
    /\ UNCHANGED pureVars

Next ==
    \/ \E dir \in Directories, q \in RunQueries : Main(dir, q)
    \/ \E d \in ClockSteps : Tick(d)
    \/ \E n \in DocumentNames : AddFile(n)
    \/ \E n \in DocumentNames : RemoveFile(n)
    \/ DamageSnapshot

Spec == Init /\ [][Next]_vars

(***************************************************************************)
(* The tokenizer on its own: every string of at most MaxLen characters     *)
(* over Alphabet, and the example of the doc comment of split_into_words.  *)
(***************************************************************************)
Alphabet == {"a", "A", "!", "?", "'", ".", ")", "(", BACKTICK, ",", "\"", " ", "\n"}

SeqsUpTo(S, n) == UNION {[1..k -> S] : k \in 0..n}

\* "Hello, World! How are you today?" (lexing.rs:132)
DocExample ==
    <<"H", "e", "l", "l", "o", ",", " ", "W", "o", "r", "l", "d", "!", " ",
      "H", "o", "w", " ", "a", "r", "e", " ", "y", "o", "u", " ",
      "t", "o", "d", "a", "y", "?">>

\* vec!["hello", "world", "how", "are", "you", "today"] (lexing.rs:136)
DocExampleResult ==
    << <<"h", "e", "l", "l", "o">>, <<"w", "o", "r", "l", "d">>, <<"h", "o", "w">>,
       <<"a", "r", "e">>, <<"y", "o", "u">>, <<"t", "o", "d", "a", "y">> >>

NoRun ==
    /\ clock = 0 /\ ticks = 0 /\ fs = <<>> /\ present = {} /\ outcome = "none"
    /\ built = <<>> /\ reads = <<>> /\ printed = <<>> /\ lastDir = <<>>
    /\ lastPaths = <<>> /\ lastQuery = <<>> /\ prevFs = <<>>

InitSplit ==
    /\ phase = "in"
    /\ input \in SeqsUpTo(Alphabet, MaxLen) \cup {DocExample}
    /\ words = <<>> /\ content = <<>> /\ tf = EmptyMap
    /\ docs = <<>> /\ query = <<>> /\ ranked = <<>>
    /\ NoRun

SplitIntoWords ==
    /\ phase = "in"
    /\ words' = split_into_words(input)
    /\ phase' = "out"
    /\ UNCHANGED <<input, content, tf, docs, query, ranked>>
    /\ UNCHANGED runVars

SpecSplit == InitSplit /\ [][SplitIntoWords]_vars

(***************************************************************************)
(* The indexer on its own: every token sequence of at most MaxTokens       *)
(* tokens over Terms.                                                      *)
(***************************************************************************)
Terms == {"a", "b", "c"}

InitIndex ==
    /\ phase = "in"
    /\ content \in SeqsUpTo(Terms, MaxTokens)
    /\ input = <<>> /\ words = <<>> /\ tf = EmptyMap
    /\ docs = <<>> /\ query = <<>> /\ ranked = <<>>
    /\ NoRun

IndexData ==
    /\ phase = "in"
    /\ tf' = index_data(content)
    /\ phase' = "out"
    /\ UNCHANGED <<input, words, content, docs, query, ranked>>
    /\ UNCHANGED runVars

SpecIndex == InitIndex /\ [][IndexData]_vars

(***************************************************************************)
(* search_query on its own: every sequence of at most MaxDocs documents,   *)
(* each built by the Document Store from a path of SearchPaths (a path may *)
(* repeat) and a text of SearchTexts, and a query that occurs in some of   *)
(* the texts or in none.                                                   *)
(***************************************************************************)
SearchPaths == {<<"d", "/", n>> : n \in FileNames}

SearchTexts == { <<"b">>, <<"A">>, <<"a", " ", "a">>, <<"a", " ", "b", ".", "a">> }

SearchDocs == {NewDocument(p, t, 0) : p \in SearchPaths, t \in SearchTexts}

Queries == { <<"a">>, <<"b">>, <<"c">> }

InitSearch ==
    /\ phase = "in"
    /\ docs \in SeqsUpTo(SearchDocs, MaxDocs)
    /\ query \in Queries
    /\ input = <<>> /\ words = <<>> /\ content = <<>> /\ tf = EmptyMap
    /\ ranked = <<>>
    /\ NoRun

SearchQuery ==
    /\ phase = "in"
    /\ ranked' = search_query(docs, query)
    /\ phase' = "out"
    /\ UNCHANGED <<input, words, content, tf, docs, query>>
    /\ UNCHANGED runVars

SpecSearch == InitSearch /\ [][SearchQuery]_vars

(***************************************************************************)
(* Claims about the tokenizer.                                             *)
(***************************************************************************)
RECURSIVE Concat(_)
Concat(ws) == IF ws = <<>> THEN <<>> ELSE Head(ws) \o Concat(Tail(ws))

\* The delimiter characters the claims name.
DelimiterChars == {"'", ".", ")", "(", BACKTICK, ",", "\"", " ", "\n"}

NotDelimiterChar(c) == c \notin DelimiterChars

Punctuation == {"!", "?"} \cup DelimiterChars

\* C8: no punctuation character, '!' and '?' included, survives inside a token,
\* and the example of the doc comment yields [hello, world, how, are, you, today].
C8_NoPunctuationSurvives ==
    phase = "out" =>
        /\ \A i \in 1..Len(words) : \A j \in 1..Len(words[i]) :
              words[i][j] \notin Punctuation
        /\ (input = DocExample => words = DocExampleResult)

(***************************************************************************)
(* Claims about the indexer.                                               *)
(***************************************************************************)
Range(f) == {f[i] : i \in DOMAIN f}

Occurrences(toks, t) == Cardinality({i \in 1..Len(toks) : toks[i] = t})

IsPowerOfTwo(n) == 2 ^ Log2Floor(n) = n

Abs(x) == IF x < 0 THEN -x ELSE x

\* 1.0 followed by k - 1 f32 additions of the f32 quotient 1.0 / n.
RECURSIVE Accumulated(_, _)
Accumulated(k, n) ==
    IF k <= 1 THEN Ulps ELSE F32AddAssign(Accumulated(k - 1, n), F32Recip(n))

SnapshotPath == PathJoin(lastDir, DATA_JSON)

Found == from_str(prevFs[SnapshotPath])

AbsentCase == outcome # "none" /\ ~Exists(prevFs, SnapshotPath)

MalformedCase == outcome # "none" /\ Exists(prevFs, SnapshotPath) /\ ~Found.ok

ParsedCase == outcome # "none" /\ Exists(prevFs, SnapshotPath) /\ Found.ok

StaleCase ==
    /\ ParsedCase
    /\ Found.docs # <<>>
    /\ clock - Found.docs[1].last_modified > WEEK_IN_SECONDS

FreshCase ==
    /\ ParsedCase
    /\ Found.docs # <<>>
    /\ clock - Found.docs[1].last_modified >= 0
    /\ clock - Found.docs[1].last_modified <= WEEK_IN_SECONDS

OnePerCandidate ==
    /\ Len(built) = Len(lastPaths)
    /\ \A i \in 1..Len(built) : built[i].path = lastPaths[i]

\* C1: when no snapshot exists at <directory>/.data.json, a run that completes
\* has built one Document per candidate path, in order, and has created the
\* snapshot at <directory>/.data.json holding exactly that sequence, so that
\* the existence test of the next run on the directory finds it.
C1_AbsentCreatesSnapshot ==
    (AbsentCase /\ outcome = "absent") =>
        /\ OnePerCandidate
        /\ Exists(fs, SnapshotPath)
        /\ fs[SnapshotPath] = to_string_pretty(built)

\* C2: when the snapshot parses and its first entry is older than 604800
\* seconds, the run rebuilds every candidate path, replaces the snapshot at
\* <directory>/.data.json by the rebuilt sequence, answers the query from the
\* rebuilt sequence and completes without aborting.
C2_StaleRebuildsAndReplaces ==
    StaleCase =>
        /\ outcome = "stale"
        /\ OnePerCandidate
        /\ fs[SnapshotPath] = to_string_pretty(built)
        /\ printed = search_query(built, lastQuery)

\* C3: when the snapshot parses and its first entry is at most 604800 seconds
\* old, the query is answered from the deserialized sequence whatever the
\* candidate paths are, no document is read and no file is changed.
C3_FreshAnswersFromSnapshot ==
    FreshCase =>
        /\ outcome = "fresh"
        /\ printed = search_query(Found.docs, lastQuery)
        /\ \A l \in 1..Len(printed) :
              \E i \in 1..Len(Found.docs) : Found.docs[i].path = printed[l].path
        /\ reads = <<>>
        /\ built = <<>>
        /\ fs = prevFs

\* C3's case: a fresh snapshot, exactly a week old, of a directory whose
\* listing has since gained or lost a document.
C3_Witness ==
    /\ FreshCase
    /\ clock - Found.docs[1].last_modified = WEEK_IN_SECONDS
    /\ {lastPaths[i] : i \in 1..Len(lastPaths)}
          # {Found.docs[i].path : i \in 1..Len(Found.docs)}
    /\ Len(printed) = Len(Found.docs)

\* C9: when the snapshot exists and does not deserialize, the run aborts with
\* the error: it builds nothing, reads no document, prints no result and leaves
\* every file as it was.
C9_MalformedSnapshotIsFatal ==
    MalformedCase =>
        /\ outcome = "deserialize_error"
        /\ built = <<>>
        /\ reads = <<>>
        /\ printed = <<>>
        /\ fs = prevFs

\* C9's case: a damaged snapshot in a directory that holds documents.
C9_Witness ==
    /\ MalformedCase
    /\ prevFs[SnapshotPath] = Garbage
    /\ lastPaths # <<>>

\* C10: a run that finds a snapshot which deserializes ends in the Stale or the
\* Fresh outcome and never aborts while classifying it, also when the snapshot
\* holds no document or its first timestamp is later than the clock.
C10_ParsedSnapshotIsClassified ==
    ParsedCase => outcome \in {"stale", "fresh"}

(***************************************************************************)
(* Claims about the query engine.                                          *)
(***************************************************************************)
\* The raw score of a document: its own term-frequency entry for the query.
Raw(doc, q) ==
    IF doc.path \in DOMAIN doc.data /\ q \in DOMAIN doc.data[doc.path]
    THEN doc.data[doc.path][q]
    ELSE 0

\* The index of the first document with path p.
FirstIndex(ds, p) == CHOOSE i \in 1..Len(ds) :
    /\ ds[i].path = p
    /\ \A j \in 1..(i - 1) : ds[j].path # p

\* s more bits of the quotient of (q * b + r) / b, by long division.
RECURSIVE DivBits(_, _, _, _)
DivBits(q, r, b, s) ==
    IF s = 0 THEN [q |-> q, r |-> r]
    ELSE IF 2 * r >= b THEN DivBits(2 * q + 1, 2 * r - b, b, s - 1)
    ELSE DivBits(2 * q, 2 * r, b, s - 1)

\* The f32 quotient a / b of two scores of [1.0, 2.0), in units of 2^-24.
F32Div(a, b) ==
    LET s == IF a >= b THEN 23 ELSE 24
        d == DivBits(a \div b, a % b, b, s)
        m == IF 2 * d.r < b THEN d.q
             ELSE IF 2 * d.r > b THEN d.q + 1
             ELSE IF d.q % 2 = 0 THEN d.q ELSE d.q + 1
    IN  IF s = 23 THEN 2 * m ELSE m

\* raw_i / raw_0, with 0.0 for a NaN or infinite quotient, in units of 2^-24.
NormalizedScore(a, b) == IF a = 0 \/ b = 0 THEN 0 ELSE F32Div(a, b)

DistinctPaths(ds) == \A i, j \in 1..Len(ds) : ds[i].path = ds[j].path => i = j

\* C5: the printed lines are in descending order of score, lines of equal score
\* keep the order of their documents in the input, and when the query term
\* occurs in no document every score is 0.0 and the lines follow the document
\* order, one line per document (ranks 1..N) when the paths are distinct.
C5_RankedDescendingStable ==
    phase = "out" =>
        /\ \A l, m \in 1..Len(ranked) : l < m =>
              /\ ranked[l].tf >= ranked[m].tf
              /\ ranked[l].tf = ranked[m].tf =>
                    FirstIndex(docs, ranked[l].path) < FirstIndex(docs, ranked[m].path)
        /\ (\A i \in 1..Len(docs) : Raw(docs[i], query) = 0) =>
              /\ \A l \in 1..Len(ranked) : ranked[l].tf = 0
              /\ DistinctPaths(docs) =>
                    /\ Len(ranked) = Len(docs)
                    /\ \A i \in 1..Len(docs) : ranked[i].path = docs[i].path

\* C5's case: three documents, the last with the highest score moves to rank 1
\* and the two tied before it keep their input order.
C5_Witness ==
    /\ phase = "out"
    /\ Len(docs) = 3 /\ DistinctPaths(docs)
    /\ Raw(docs[1], query) = Raw(docs[2], query)
    /\ Raw(docs[3], query) > Raw(docs[1], query)
    /\ ranked[1].path = docs[3].path
    /\ ranked[2].path = docs[1].path
    /\ ranked[3].path = docs[2].path

====
